---- MODULE Spec2Model ----
(***************************************************************************)
(* Model of the RTU MIREA schedule API (src/main.py, src/config.py).       *)
(*                                                                         *)
(* Texts are sequences of one-character strings.  A Cyrillic letter is     *)
(* written "~x" where x is its Latin transliteration ("~n" is the letter   *)
(* en, "~N" its capital); every such string stands for ONE character.      *)
(***************************************************************************)
EXTENDS FiniteSets, Integers, Sequences, TLC

\* Python's None
None == [none |-> TRUE]

(***************************************************************************)
(* Python str primitives used by the code                                  *)
(***************************************************************************)
AsciiDigits == {"0", "1", "2", "3", "4", "5", "6", "7", "8", "9"}

\* \d and int() take every Unicode decimal digit; "~3" and "~4" are
\* ARABIC-INDIC DIGIT THREE and FOUR
Digits == AsciiDigits \cup {"~3", "~4"}

DigitVal(c) == IF c = "~3" THEN 3
               ELSE IF c = "~4" THEN 4
               ELSE CHOOSE n \in 0..9 : <<"0", "1", "2", "3", "4", "5", "6", "7", "8", "9">>[n + 1] = c

\* characters matched by \s and removed by str.strip()
Whitespace == {" ", "\n", "\t"}

\* str.lower() on the letters of the modelled alphabet
LowerMap == [c \in {"A", "B", "L", "K", "P", "R", "~N", "~S", "~B", "~A", "~O", "~P", "~G"} |->
               CASE c = "A" -> "a" [] c = "B" -> "b" [] c = "L" -> "l" [] c = "K" -> "k"
                 [] c = "P" -> "p" [] c = "R" -> "r" [] c = "~N" -> "~n" [] c = "~S" -> "~s"
                 [] c = "~B" -> "~b" [] c = "~A" -> "~a" [] c = "~O" -> "~o"
                 [] c = "~P" -> "~p" [] c = "~G" -> "~g"]

Lower(s) == [i \in 1..Len(s) |-> IF s[i] \in DOMAIN LowerMap THEN LowerMap[s[i]] ELSE s[i]]

\* s[a..b] as in Python slicing with 1-based inclusive ends; empty when a > b
Slice(s, a, b) == IF a > b THEN <<>> ELSE SubSeq(s, a, b)

StartsAt(s, sub, i) == /\ i + Len(sub) - 1 <= Len(s)
                       /\ \A k \in 1..Len(sub) : s[i + k - 1] = sub[k]

\* str.find from index i on: the first index at which sub occurs, 0 when none
RECURSIVE FindFrom(_, _, _)
FindFrom(s, sub, i) == IF i + Len(sub) - 1 > Len(s) THEN 0
                       ELSE IF StartsAt(s, sub, i) THEN i
                       ELSE FindFrom(s, sub, i + 1)

\* str.find (sub non-empty)
Find(s, sub) == FindFrom(s, sub, 1)

\* the `sub in s` test (sub non-empty)
Contains(s, sub) == \E i \in 1..Len(s) : StartsAt(s, sub, i)

RECURSIVE LStrip(_)
LStrip(s) == IF s # <<>> /\ Head(s) \in Whitespace THEN LStrip(Tail(s)) ELSE s

RECURSIVE RStrip(_)
RStrip(s) == IF s # <<>> /\ s[Len(s)] \in Whitespace THEN RStrip(Slice(s, 1, Len(s) - 1)) ELSE s

\* str.strip()
Strip(s) == RStrip(LStrip(s))

\* str.split(sep): the list of pieces between the occurrences of sep
RECURSIVE Split(_, _)
Split(s, sep) == LET i == Find(s, sep)
                 IN IF i = 0 THEN <<s>>
                    ELSE <<Slice(s, 1, i - 1)>> \o Split(Slice(s, i + Len(sep), Len(s)), sep)

\* str.split(sep, 1): at most one split
Split1(s, sep) == LET i == Find(s, sep)
                  IN IF i = 0 THEN <<s>>
                     ELSE <<Slice(s, 1, i - 1), Slice(s, i + Len(sep), Len(s))>>

\* str.replace(old, new)
RECURSIVE Replace(_, _, _)
Replace(s, old, new) == LET i == Find(s, old)
                        IN IF i = 0 THEN s
                           ELSE Slice(s, 1, i - 1) \o new \o Replace(Slice(s, i + Len(old), Len(s)), old, new)

\* the digits of an int() literal body: digits, single underscores between them
RECURSIVE IsIntBody(_)
IsIntBody(s) == /\ s # <<>>
                /\ Head(s) \in Digits
                /\ \/ Len(s) = 1
                   \/ IsIntBody(Tail(s))
                   \/ Len(s) >= 3 /\ s[2] = "_" /\ IsIntBody(Slice(s, 3, Len(s)))

RECURSIVE IntBodyVal(_, _)
IntBodyVal(s, acc) == IF s = <<>> THEN acc
                      ELSE IF Head(s) = "_" THEN IntBodyVal(Tail(s), acc)
                      ELSE IntBodyVal(Tail(s), acc * 10 + DigitVal(Head(s)))

\* int(s) accepts surrounding whitespace and one sign; anything else is a ValueError
IntOk(s) == LET t == Strip(s)
                b == IF t # <<>> /\ Head(t) \in {"+", "-"} THEN Tail(t) ELSE t
            IN IsIntBody(b)

IntVal(s) == LET t == Strip(s)
                 neg == t # <<>> /\ Head(t) = "-"
                 b == IF t # <<>> /\ Head(t) \in {"+", "-"} THEN Tail(t) ELSE t
             IN IF neg THEN 0 - IntBodyVal(b, 0) ELSE IntBodyVal(b, 0)

(***************************************************************************)
(* parse_time_to_minutes: a sort key [fin |-> TRUE, m |-> minutes], or     *)
(* Inf for float('inf')                                                    *)
(***************************************************************************)
Inf == [fin |-> FALSE, m |-> 0]

parse_time_to_minutes(time_str) ==
    LET start_time == Split(time_str, <<" ", "-", " ">>)[1]
        parts == Split(start_time, <<":">>)
    IN IF Len(parts) = 2 /\ IntOk(parts[1]) /\ IntOk(parts[2])
       THEN [fin |-> TRUE, m |-> IntVal(parts[1]) * 60 + IntVal(parts[2])]
       ELSE Inf

\* a < b on sort keys, as Python compares int and float('inf')
KeyLess(a, b) == IF ~a.fin THEN FALSE ELSE IF ~b.fin THEN TRUE ELSE a.m < b.m

(***************************************************************************)
(* Literals of src/main.py                                                 *)
(***************************************************************************)
NO_DATA == <<"~N", "~e", "~t", " ", "~d", "~a", "~n", "~n", "~y", "~h">>

NO_TIME == <<"~N", "~e", "~t", " ", "~v", "~r", "~e", "~m", "~e", "~n", "~i">>

NOT_SPECIFIED == <<"~N", "~e", " ", "~u", "~k", "~a", "~z", "~a", "~n">>

NO_GROUPS == <<"~N", "~e", "~t", " ", "~d", "~a", "~n", "~n", "~y", "~h", " ", "~o", " ",
               "~g", "~r", "~u", "~p", "~p", "~a", "~h">>

SESSION == <<"~S", "~e", "~s", "~s", "~i", "~ya">>

KW_WEEK == <<"~n", "~e", "~d", "~e", "~l", "~ya">>

KW_SESSION == <<"~s", "~e", "~s", "~s", "~i", "~ya">>

LBL_TEACHER == <<"~P", "~r", "~e", "~p", "~o", "~d", "~a", "~v", "~a", "~t", "~e", "~l", "~'", ":">>

LBL_GROUPS == <<"~G", "~r", "~u", "~p", "~p", "~y", ":">>

GROUP_PREFIX == <<"~B", "~A", "~S", "~O", "-">>

(***************************************************************************)
(* Text of one block: lines 122-154 of get_day_schedule                    *)
(***************************************************************************)
\* length of the match of \d{1,2}:\d{2} at index i of s, 0 when there is none
MatchClock(s, i) ==
    IF /\ i + 4 <= Len(s) /\ s[i] \in Digits /\ s[i + 1] \in Digits /\ s[i + 2] = ":"
       /\ s[i + 3] \in Digits /\ s[i + 4] \in Digits
    THEN 5
    ELSE IF /\ i + 3 <= Len(s) /\ s[i] \in Digits /\ s[i + 1] = ":"
            /\ s[i + 2] \in Digits /\ s[i + 3] \in Digits
    THEN 4
    ELSE 0

\* the first index >= i of s that holds no whitespace, Len(s) + 1 when there is none
RECURSIVE SkipWs(_, _)
SkipWs(s, i) == IF i <= Len(s) /\ s[i] \in Whitespace THEN SkipWs(s, i + 1) ELSE i

\* the end of the run of non-newline characters that starts at index p
RECURSIVE LineEnd(_, _)
LineEnd(s, p) == IF p < Len(s) /\ s[p + 1] # "\n" THEN LineEnd(s, p + 1) ELSE p

\* re.match(r"(\d{1,2}:\d{2})\s*-\s*(\d{1,2}:\d{2})\s*(.+)", s)
time_match(s) ==
    LET none == [ok |-> FALSE, start_time |-> <<>>, end_time |-> <<>>, subject_raw |-> <<>>]
        l1 == MatchClock(s, 1)
        d == SkipWs(s, 1 + l1)
        j == SkipWs(s, d + 1)
        l2 == MatchClock(s, j)
        k == j + l2
        \* \s* is greedy and gives characters back until (.+) finds one non-newline
        cand == {p \in k..Len(s) : /\ \A q \in k..(p - 1) : s[q] \in Whitespace
                                   /\ s[p] # "\n"}
        p0 == CHOOSE p \in cand : \A q \in cand : q <= p
    IN IF l1 = 0 THEN none
       ELSE IF ~(d <= Len(s) /\ s[d] = "-") THEN none
       ELSE IF l2 = 0 THEN none
       ELSE IF cand = {} THEN none
       ELSE [ok |-> TRUE, start_time |-> Slice(s, 1, l1), end_time |-> Slice(s, j, k - 1),
             subject_raw |-> Slice(s, p0, LineEnd(s, p0))]

\* any(char in text for char in [":", "-"])
HasTimePunct(text) == Contains(text, <<":">>) \/ Contains(text, <<"-">>)

\* [p.strip() for p in subject_raw.split("|") if p.strip()]
NonEmptyParts(subject_raw) ==
    LET raw == Split(subject_raw, <<"|">>)
        stripped == [i \in 1..Len(raw) |-> Strip(raw[i])]
    IN SelectSeq(stripped, LAMBDA p : p # <<>>)

\* lines 145-154: lesson_type and subject_name from subject_raw
TypeAndSubject(subject_raw) ==
    LET parts == NonEmptyParts(subject_raw)
    IN IF Contains(subject_raw, <<"|">>) /\ Len(parts) >= 2
       THEN [type |-> parts[1], subject |-> Strip(parts[2])]
       ELSE IF Contains(subject_raw, <<"|">>) /\ Len(parts) = 1
       THEN [type |-> NOT_SPECIFIED, subject |-> Strip(parts[1])]
       ELSE [type |-> NOT_SPECIFIED, subject |-> Strip(subject_raw)]

\* `if len(parts) == 2:` without the test for "-": the first word of every
\* title of two words is taken for a time
TimeAndSubjectRaw_AnySplit(text) ==
    LET tm == time_match(text)
        parts == Split1(text, <<" ">>)
    IN IF tm.ok
       THEN [time |-> tm.start_time \o <<" ", "-", " ">> \o tm.end_time,
             subject_raw |-> Strip(tm.subject_raw)]
       ELSE IF Len(parts) = 2
       THEN [time |-> Replace(parts[1], <<" ">>, <<>>), subject_raw |-> Strip(parts[2])]
       ELSE [time |-> NO_TIME, subject_raw |-> text]

\* lines 132-144: current_time and subject_raw from the title text
TimeAndSubjectRaw(text) ==
    LET tm == time_match(text)
        parts == Split1(text, <<" ">>)
    IN IF tm.ok
       THEN [time |-> tm.start_time \o <<" ", "-", " ">> \o tm.end_time,
             subject_raw |-> Strip(tm.subject_raw)]
       ELSE IF Len(parts) = 2 /\ Contains(parts[1], <<"-">>)
       THEN [time |-> Replace(parts[1], <<" ">>, <<>>), subject_raw |-> Strip(parts[2])]
       ELSE [time |-> NO_TIME, subject_raw |-> text]

\* the keyword test of line 125 without its test for ":" and "-"
IsWeekMarker_KeywordOnly(text) == Contains(Lower(text), KW_WEEK)

\* lines 122-131: the kind of a block, from its title text
IsWeekMarker(text) == Contains(Lower(text), KW_WEEK) /\ ~HasTimePunct(text)

IsSessionMarker(text) == /\ ~IsWeekMarker(text)
                         /\ Contains(Lower(text), KW_SESSION) /\ ~HasTimePunct(text)

\* line 123-124: the stripped inner text of the title element, or the
\* sentinel when the block has no title element (title = None)
time_subject_text(block) == IF block.title = None THEN NO_DATA ELSE Strip(block.title.inner_text)

\* lines 155-157: the stripped inner text of the room element, or the sentinel
room_text(block) == IF block.room = None THEN NO_DATA ELSE Strip(block.room.inner_text)

(***************************************************************************)
(* Popover text: lines 162, 167-188 of get_day_schedule                    *)
(***************************************************************************)
\* (await dialog.inner_text()).strip().split("\n")
ExtraInfo(dialog_text) == Split(Strip(dialog_text), <<"\n">>)

\* lines 171-174: the first line that holds the teacher label
Teacher(extra_info) ==
    LET hits == {i \in 1..Len(extra_info) : Contains(extra_info[i], LBL_TEACHER)}
        first == CHOOSE i \in hits : \A j \in hits : i <= j
    IN IF hits = {} THEN NO_DATA
       ELSE Strip(Replace(extra_info[first], LBL_TEACHER, <<>>))

\* lines 176-186: the loop over the lines, groups_section being its flag
RECURSIVE GroupsLoop(_, _, _)
GroupsLoop(lines, groups_section, groups) ==
    IF lines = <<>> THEN groups
    ELSE LET line == Head(lines)
         IN IF Contains(line, LBL_GROUPS) THEN GroupsLoop(Tail(lines), TRUE, groups)
            ELSE IF groups_section /\ Strip(line) # <<>>
            THEN GroupsLoop(Tail(lines), groups_section,
                            IF Contains(line, GROUP_PREFIX) THEN Append(groups, Strip(line))
                            ELSE groups)
            ELSE IF groups_section /\ Strip(line) = <<>> THEN groups
            ELSE GroupsLoop(Tail(lines), groups_section, groups)

\* lines 167-188: teacher and groups from extra_info ([] keeps the sentinels)
Details(extra_info) ==
    LET groups == GroupsLoop(extra_info, FALSE, <<>>)
    IN IF extra_info = <<>> THEN [teacher |-> NO_DATA, groups |-> <<NO_GROUPS>>]
       ELSE [teacher |-> Teacher(extra_info),
             groups |-> IF groups = <<>> THEN <<NO_GROUPS>> ELSE groups]

(***************************************************************************)
(* Dates: datetime.strptime / strftime / timedelta / weekday               *)
(***************************************************************************)
IsLeap(y) == (y % 4 = 0 /\ y % 100 # 0) \/ y % 400 = 0

DaysInMonth(y, m) == IF m = 2 THEN (IF IsLeap(y) THEN 29 ELSE 28)
                     ELSE IF m \in {4, 6, 9, 11} THEN 30 ELSE 31

RECURSIVE DaysBeforeMonth(_, _)
DaysBeforeMonth(y, m) == IF m = 1 THEN 0 ELSE DaysBeforeMonth(y, m - 1) + DaysInMonth(y, m - 1)

DaysBeforeYear(y) == (y - 1) * 365 + ((y - 1) \div 4) - ((y - 1) \div 100) + ((y - 1) \div 400)

\* date.toordinal(): 0001-01-01 is day 1
ToOrdinal(dt) == DaysBeforeYear(dt.y) + DaysBeforeMonth(dt.y, dt.m) + dt.d

\* date.fromordinal(n)
FromOrdinal(n) ==
    LET y == CHOOSE yy \in (n \div 366)..((n \div 365) + 1) :
                 DaysBeforeYear(yy) < n /\ n <= DaysBeforeYear(yy + 1)
        m == CHOOSE mm \in 1..12 : /\ DaysBeforeMonth(y, mm) < n - DaysBeforeYear(y)
                                   /\ n - DaysBeforeYear(y) <= DaysBeforeMonth(y, mm) + DaysInMonth(y, mm)
    IN [y |-> y, m |-> m, d |-> n - DaysBeforeYear(y) - DaysBeforeMonth(y, m)]

\* datetime.weekday(): Monday is 0
weekday(dt) == (ToOrdinal(dt) + 6) % 7

\* dt + timedelta(days=n) on the date part
AddDays(dt, n) == FromOrdinal(ToOrdinal(dt) + n)

DigitChar(n) == <<"0", "1", "2", "3", "4", "5", "6", "7", "8", "9">>[n + 1]

\* zero-padded decimal of width w
RECURSIVE Pad(_, _)
Pad(n, w) == IF w = 0 THEN <<>> ELSE Pad(n \div 10, w - 1) \o <<DigitChar(n % 10)>>

\* dt.strftime("%Y-%m-%d")
strftime(dt) == Pad(dt.y, 4) \o <<"-">> \o Pad(dt.m, 2) \o <<"-">> \o Pad(dt.d, 2)

\* strptime's %m and %d take one or two ASCII digits; %Y takes exactly four
IsField(s, lo, hi) == /\ Len(s) \in lo..hi
                      /\ \A i \in 1..Len(s) : s[i] \in AsciiDigits

\* datetime.strptime(date_str, "%Y-%m-%d"): the date, or None for a ValueError
strptime(date_str) ==
    LET parts == Split(date_str, <<"-">>)
        y == IntBodyVal(parts[1], 0)
        m == IntBodyVal(parts[2], 0)
        d == IntBodyVal(parts[3], 0)
    IN IF /\ Len(parts) = 3
          /\ IsField(parts[1], 4, 4) /\ IsField(parts[2], 1, 2) /\ IsField(parts[3], 1, 2)
          /\ y >= 1 /\ m \in 1..12 /\ d >= 1 /\ d <= DaysInMonth(y, m)
       THEN [y |-> y, m |-> m, d |-> d]
       ELSE None

(***************************************************************************)
(* Cache files: src/main.py lines 58-88, src/config.py line 11             *)
(***************************************************************************)
CACHE_TTL == 86400

LatinLetters == {"A", "B", "L", "K", "P", "R", "X", "Y", "a", "b", "l", "k", "p", "r", "x", "y"}

\* the letters of the range capital A - capital Ya
CyrillicUpper == {"~N", "~S", "~B", "~A", "~O", "~P", "~G"}

\* the letters of the range small a - small ya
CyrillicLower == {"~n", "~e", "~t", "~d", "~a", "~y", "~h", "~v", "~r", "~m", "~i", "~u",
                  "~k", "~z", "~o", "~g", "~p", "~s", "~l", "~ya", "~'", "~b"}

CyrillicRange == CyrillicUpper \cup CyrillicLower

\* the letters yo and Yo, which lie outside those ranges
CyrillicYo == {"~yo", "~Yo"}

\* re.sub(r'[^A-Za-z0-9-<Cyrillic>]', '_', group)
safe_group(group) ==
    [i \in 1..Len(group) |->
        IF group[i] \in LatinLetters \cup AsciiDigits \cup {"-"} \cup CyrillicRange \cup CyrillicYo
        THEN group[i] ELSE "_"]

\* f"{safe_group}_{date}.json", the name of the file inside CACHE_DIR
cache_filename(group, date) == safe_group(group) \o <<"_">> \o date \o <<".", "j", "s", "o", "n">>

\* json.dump(schedule, f, ensure_ascii=False, indent=2): the text as a token
\* sequence, one token per bracket, comma and object
Tok(c) == [t |-> c]

ObjTok(r) == [t |-> "obj", v |-> r]

RECURSIVE DumpItems(_)
DumpItems(schedule) == IF schedule = <<>> THEN <<>>
                       ELSE IF Len(schedule) = 1 THEN <<ObjTok(schedule[1])>>
                       ELSE <<ObjTok(Head(schedule)), Tok(",")>> \o DumpItems(Tail(schedule))

json_dump(schedule) == <<Tok("[")>> \o DumpItems(schedule) \o <<Tok("]")>>

\* a file that ends inside a multi-byte character is not UTF-8 text
IsUtf8(data) == \A i \in 1..Len(data) : data[i] # Tok("half")

\* the text is a JSON document: [ obj , obj , ... ]
IsJson(data) ==
    /\ Len(data) >= 2
    /\ data[1] = Tok("[") /\ data[Len(data)] = Tok("]")
    /\ Len(data) = 2 \/ Len(data) % 2 = 1
    /\ \A i \in 2..(Len(data) - 1) : IF i % 2 = 0 THEN data[i].t = "obj" ELSE data[i] = Tok(",")

\* json.load(f) of a JSON document
json_load(data) == [k \in 1..((Len(data) - 1) \div 2) |-> data[2 * k].v]

\* lines 61-64
is_cache_valid(files, now, name) ==
    /\ name \in DOMAIN files
    /\ (now - files[name].mtime) < CACHE_TTL

\* lines 67-76; read_ok is whether open() and read() succeed.  The result is
\* None, [value |-> schedule], or [raised |-> TRUE] for an exception that the
\* except clause (JSONDecodeError, IOError) does not name.
load_from_cache(files, now, group, date, read_ok) ==
    LET name == cache_filename(group, date)
    IN IF ~is_cache_valid(files, now, name) THEN None
       ELSE IF ~read_ok THEN None
       ELSE IF ~IsUtf8(files[name].data) THEN [raised |-> TRUE]
       ELSE IF ~IsJson(files[name].data) THEN None
       ELSE [value |-> json_load(files[name].data)]

\* open(name, "a") in place of "w": the text is added to the old content
WriteFile_Append(files, now, name, text, n, half) ==
    LET old == IF name \in DOMAIN files THEN files[name].data ELSE <<>>
        data == old \o Slice(text, 1, n) \o (IF half THEN <<Tok("half")>> ELSE <<>>)
    IN [f \in DOMAIN files \cup {name} |->
          IF f = name THEN [data |-> data, mtime |-> now] ELSE files[f]]

\* the file system after open(name, "w") and a write of the first n tokens
\* of the text, cut inside a character when half holds
WriteFile(files, now, name, text, n, half) ==
    LET data == Slice(text, 1, n) \o (IF half THEN <<Tok("half")>> ELSE <<>>)
    IN [f \in DOMAIN files \cup {name} |->
          IF f = name THEN [data |-> data, mtime |-> now] ELSE files[f]]

(***************************************************************************)
(* schedule.sort(key=lambda x: parse_time_to_minutes(x["time"])): line 200 *)
(***************************************************************************)
SortKey(x) == parse_time_to_minutes(x.time)

\* x goes before the elements of equal key: equal keys come out reversed
RECURSIVE InsertByKey_Unstable(_, _)
InsertByKey_Unstable(sorted, x) ==
    IF sorted = <<>> THEN <<x>>
    ELSE IF ~KeyLess(SortKey(Head(sorted)), SortKey(x)) THEN <<x>> \o sorted
    ELSE <<Head(sorted)>> \o InsertByKey_Unstable(Tail(sorted), x)

\* x goes after every element whose key is not greater: the sort is stable
RECURSIVE InsertByKey(_, _)
InsertByKey(sorted, x) ==
    IF sorted = <<>> THEN <<x>>
    ELSE IF KeyLess(SortKey(x), SortKey(Head(sorted))) THEN <<x>> \o sorted
    ELSE <<Head(sorted)>> \o InsertByKey(Tail(sorted), x)

RECURSIVE SortByTime(_, _)
SortByTime(schedule, acc) ==
    IF schedule = <<>> THEN acc
    ELSE SortByTime(Tail(schedule), InsertByKey(acc, Head(schedule)))

sort(schedule) == SortByTime(schedule, <<>>)

(***************************************************************************)
(* The loop over schedule_blocks: lines 119-198 of get_day_schedule        *)
(***************************************************************************)
\* What the browser does on one block: "ok", or the await that fails and how.
\* A *_timeout is a PlaywrightTimeoutError, a *_error any other exception.
Outcomes == {"ok", "extract_error", "hover_error", "wait_timeout", "wait_error",
             "read_timeout", "read_error", "click_timeout", "click_error"}

\* no except clause around the dialog: its timeout leaves the loop as well
Raises_NoExcept(o) == o \in {"extract_error", "hover_error", "wait_error", "read_error",
                             "click_error", "wait_timeout", "read_timeout", "click_timeout"}

\* the outcomes that raise out of the loop body (lines 122-163)
Raises(o) == o \in {"extract_error", "hover_error", "wait_error", "read_error", "click_error"}

\* lines 160-165: extra_info after the try/except around the dialog
extra_info(block, o) == IF o = "ok" THEN ExtraInfo(block.dialog) ELSE <<>>

\* the pointer events the page has seen for one lesson block
PointerEvents(o) == IF o = "hover_error" THEN <<>>
                    ELSE IF o = "ok" THEN <<"hover", "click">>
                    ELSE <<"hover">>

\* lines 132-157 and 167-198: the record of a lesson block
Record(block, period, o) ==
    LET ts == TimeAndSubjectRaw(time_subject_text(block))
        ty == TypeAndSubject(ts.subject_raw)
        det == Details(extra_info(block, o))
    IN [period |-> period, time |-> ts.time, type |-> ty.type, subject |-> ty.subject,
        room |-> room_text(block), teacher |-> det.teacher, groups |-> det.groups]

\* an except clause inside the loop that ends it with `break`: what was
\* collected before the failure goes on to the sort and to the cache
RECURSIVE BlocksLoop_Break(_, _, _, _, _, _)
BlocksLoop_Break(blocks, out, i, period, schedule, log) ==
    IF i > Len(blocks) THEN [raised |-> FALSE, schedule |-> schedule, log |-> log]
    ELSE IF out[i] = "extract_error" THEN [raised |-> FALSE, schedule |-> schedule, log |-> log]
    ELSE LET text == time_subject_text(blocks[i])
         IN IF IsWeekMarker(text)
            THEN BlocksLoop_Break(blocks, out, i + 1, text, schedule, log)
            ELSE IF IsSessionMarker(text)
            THEN BlocksLoop_Break(blocks, out, i + 1, SESSION, schedule, log)
            ELSE IF Raises(out[i])
            THEN [raised |-> FALSE, schedule |-> schedule, log |-> log \o PointerEvents(out[i])]
            ELSE BlocksLoop_Break(blocks, out, i + 1, period,
                                  Append(schedule, Record(blocks[i], period, out[i])),
                                  log \o PointerEvents(out[i]))

\* the for loop from block i on; out[i] is the browser's behaviour on block i
RECURSIVE BlocksLoop(_, _, _, _, _, _)
BlocksLoop(blocks, out, i, period, schedule, log) ==
    IF i > Len(blocks) THEN [raised |-> FALSE, schedule |-> schedule, log |-> log]
    ELSE IF out[i] = "extract_error" THEN [raised |-> TRUE, schedule |-> schedule, log |-> log]
    ELSE LET text == time_subject_text(blocks[i])
         IN IF IsWeekMarker(text)
            THEN BlocksLoop(blocks, out, i + 1, text, schedule, log)
            ELSE IF IsSessionMarker(text)
            THEN BlocksLoop(blocks, out, i + 1, SESSION, schedule, log)
            ELSE IF Raises(out[i])
            THEN [raised |-> TRUE, schedule |-> schedule, log |-> log \o PointerEvents(out[i])]
            ELSE BlocksLoop(blocks, out, i + 1, period,
                            Append(schedule, Record(blocks[i], period, out[i])),
                            log \o PointerEvents(out[i]))

(***************************************************************************)
(* save_to_cache: lines 79-88.  io is what the file system does:           *)
(* io.mkdir_ok, io.open_ok, io.written tokens reach the disk, io.half      *)
(***************************************************************************)
save_to_cache(files, cache_dir, now, group, date, schedule, io) ==
    LET name == cache_filename(group, date)
        text == json_dump(schedule)
    IN IF ~cache_dir /\ ~io.mkdir_ok
       THEN [raised |-> TRUE, files |-> files, cache_dir |-> cache_dir]
       ELSE IF ~io.open_ok
       THEN [raised |-> FALSE, files |-> files, cache_dir |-> TRUE]
       ELSE [raised |-> FALSE, cache_dir |-> TRUE,
             files |-> WriteFile(files, now, name, text, io.written, io.half)]

\* the file is not closed when save_to_cache returns: the end of the text is
\* still in the buffer of the file object
IoOk_Unflushed(text) ==
    [mkdir_ok |-> TRUE, open_ok |-> TRUE, written |-> Len(text) - 1, half |-> FALSE]

\* the behaviours of the file system on a write of text: all of it reaches
\* the disk, or makedirs fails, or open fails, or the write fails with an
\* empty file, with all but the closing bracket, or inside an object
IoOk(text) == [mkdir_ok |-> TRUE, open_ok |-> TRUE, written |-> Len(text), half |-> FALSE]

IoChoices(text) ==
    {IoOk(text),
     [mkdir_ok |-> FALSE, open_ok |-> TRUE, written |-> Len(text), half |-> FALSE],
     [mkdir_ok |-> TRUE, open_ok |-> FALSE, written |-> Len(text), half |-> FALSE]}
    \cup {[mkdir_ok |-> TRUE, open_ok |-> TRUE, written |-> n, half |-> FALSE] :
             n \in {0, Len(text) - 1}}
    \cup (IF Len(text) < 3 THEN {}
          ELSE {[mkdir_ok |-> TRUE, open_ok |-> TRUE, written |-> Len(text) - 2, half |-> TRUE]})

(***************************************************************************)
(* The upstream site: pages of lesson blocks                               *)
(***************************************************************************)
TitleA == <<"1", "0", ":", "4", "0", " ", "-", " ", "1", "2", ":", "1", "0", " ", "L", "K", " ", "|", " ", "A">>

TitleB == <<" ", "9", ":", "0", "0", " ", "-", " ", "1", "0", ":", "3", "0", " ", "P", "R", " ", "|", " ", "B", " ">>

TitleB2 == <<"9", ":", "0", "0", " ", "-", " ", "1", "0", ":", "3", "0", " ", "X">>

TitleN == <<"X", " ", "Y">>

TitleW == <<"1", " ", "~N", "~e", "~d", "~e", "~l", "~ya">>

DialogFull == <<"A", "\n", "~P", "~r", "~e", "~p", "~o", "~d", "~a", "~v", "~a", "~t", "~e", "~l", "~'", ":", " ", "Y", "\n", "~G", "~r", "~u", "~p", "~p", "~y", ":", "\n", "~B", "~A", "~S", "~O", "-", "1", "\n">>

DialogBare == <<"A">>

Elem(text) == [inner_text |-> text]

Block(title, room, dialog) == [title |-> title, room |-> room, dialog |-> dialog]

BlockA == Block(Elem(TitleA), Elem(<<"1">>), DialogFull)

BlockB == Block(Elem(TitleB), None, DialogBare)

BlockB2 == Block(Elem(TitleB2), Elem(<<"2">>), DialogFull)

BlockN == Block(Elem(TitleN), None, DialogFull)

BlockW == Block(Elem(TitleW), None, DialogBare)

(***************************************************************************)
(* Bounds and inputs                                                       *)
(***************************************************************************)
\* get_day_schedule calls that one behaviour starts through GET /schedule
MaxCalls == 2

\* failures the environment (browser, file system) injects in one behaviour
MaxFaults == 1

\* clock steps of one behaviour
MaxTicks == 1

\* changes of the upstream timetable in one behaviour
MaxEdits == 1

\* blocks on a page of the parsing specification
MaxBlocks == 3

\* days of a week request that the cache does not hold when faults and clock
\* steps are explored
MaxMisses == 2

\* asyncio tasks: the seven of one week request
WEEK_DAYS == 7

Tasks == 1..WEEK_DAYS

\* the owner of the contexts and pages whose task is over
Orphan == 0

\* the wall clock reads ClockStart 00:00:00 when now = 0
ClockStart == [y |-> 2024, m |-> 6, d |-> 12]

GroupA == <<"~B", "~A", "~S", "~O", "-", "0", "3", "-", "2", "4">>

GroupBad == <<"A", "B">>

Date1 == <<"2", "0", "2", "4", "-", "0", "6", "-", "1", "2">>

DateBad == <<"2", "0", "2", "4", "-", "0", "2", "-", "3", "0">>

DateFar == <<"2", "0", "2", "7", "-", "0", "1", "-", "0", "1">>

SmallPages == {<<>>, <<BlockW>>, <<BlockW, BlockA>>}

DateMon == <<"2", "0", "2", "4", "-", "0", "6", "-", "1", "0">>

DateSun == <<"2", "0", "2", "4", "-", "0", "6", "-", "1", "6">>

DateNewYear == <<"2", "0", "2", "4", "-", "1", "2", "-", "3", "1">>

\* the pages of the seven days of a week, Monday first
WeekPages == <<<<BlockA>>, <<BlockB>>, <<>>, <<BlockW, BlockA>>, <<BlockN>>, <<BlockB2>>,
              <<BlockW, BlockB2>>>>

\* the Mondays of the weeks the site serves
WeekStarts == {[y |-> 2024, m |-> 6, d |-> 10], [y |-> 2024, m |-> 12, d |-> 30]}

(***************************************************************************)
(* State                                                                   *)
(***************************************************************************)
VARIABLES
    browser,     \* pw_manager.browser is set (the browser is launched)
    contexts,    \* the open browser contexts, named by the task that made them
    pages,       \* the open pages, named likewise
    cache_dir,   \* CACHE_DIR exists
    files,       \* the files of CACHE_DIR: name -> [data, mtime]
    now,         \* time.time(), in seconds
    site,        \* the upstream site: <<group, date>> -> page of blocks
    pc,          \* where each get_day_schedule task stands
    frame,       \* the arguments and locals of each task
    ret,         \* what each finished task returned or raised
    week,        \* the GET /schedule/week request
    budget       \* what the bounds leave: calls, parallel (requests served at a
                 \* time), faults, ticks, edits, weeks

vars == <<browser, contexts, pages, cache_dir, files, now, site, pc, frame, ret, week, budget>>

\* group, date: the arguments; blocks: schedule_blocks (line 115);
\* out: the browser's behaviour on the blocks;
\* schedule: the list the loop built, before the sort; log: the pointer events
\* of the page; io: the file system's behaviour in save_to_cache, None when
\* line 201 was not reached; hit: line 102 returned; logged: line 205 logged
\* an error
NoFrame == [group |-> <<>>, date |-> <<>>, blocks |-> <<>>, out |-> <<>>, schedule |-> <<>>,
            log |-> <<>>, io |-> None, hit |-> FALSE, logged |-> FALSE]

Returned(v) == [value |-> v]

Raised == [raised |-> TRUE]

\* the GET /schedule/week request: its arguments and locals, and its response
NoWeek == [pc |-> "idle", group |-> <<>>, date_dt |-> None, monday |-> None,
           week_dates |-> <<>>, response |-> None]

InitWith(urls, pageset, calls, parallel, ticks, edits, weeks) ==
    /\ browser = FALSE
    /\ contexts = {}
    /\ pages = {}
    /\ cache_dir = FALSE
    /\ files = [f \in {} |-> None]
    /\ now = 0
    /\ site \in [urls -> pageset]
    /\ pc = [t \in Tasks |-> "idle"]
    /\ frame = [t \in Tasks |-> NoFrame]
    /\ ret = [t \in Tasks |-> None]
    /\ week = NoWeek
    /\ budget = [calls |-> calls, parallel |-> parallel, faults |-> MaxFaults,
                 ticks |-> ticks, edits |-> edits, weeks |-> weeks]

Init == InitWith({<<GroupA, Date1>>}, {<<BlockW, BlockA>>}, MaxCalls, 1, MaxTicks, MaxEdits, 0)

(***************************************************************************)
(* Request validation: lines 210-230                                       *)
(***************************************************************************)
\* $ matches at the end of the string and before a newline that ends it
MatchEnd(s, i) == i = Len(s) + 1 \/ (i = Len(s) /\ s[i] = "\n")

\* GROUP_REGEX.match(group): four capitals of the Cyrillic range, -dd-dd
GROUP_REGEX(group) ==
    /\ Len(group) >= 10
    /\ \A i \in 1..4 : group[i] \in CyrillicUpper
    /\ group[5] = "-" /\ group[6] \in Digits /\ group[7] \in Digits
    /\ group[8] = "-" /\ group[9] \in Digits /\ group[10] \in Digits
    /\ MatchEnd(group, 11)

\* re.match(r"^[<Cyrillic>A-Za-z0-9-]+$", group)
FallbackMatch(group) ==
    \E n \in 1..Len(group) :
        /\ \A i \in 1..n : group[i] \in CyrillicRange \cup CyrillicYo \cup LatinLetters
                                         \cup AsciiDigits \cup {"-"}
        /\ MatchEnd(group, n + 1)

\* validate_group returns (TRUE) or raises HTTPException 400 (FALSE)
validate_group(group) ==
    GROUP_REGEX(group) \/ (3 <= Len(group) /\ Len(group) <= 15 /\ FallbackMatch(group))

\* seconds from ClockStart 00:00:00 to dt 00:00:00
Seconds(dt) == (ToOrdinal(dt) - ToOrdinal(ClockStart)) * 86400

\* validate_date_range: the parsed date, or None for HTTPException 400
validate_date_range(date_str, time) ==
    LET dt == strptime(date_str)
    IN IF dt = None THEN None
       ELSE IF Seconds(dt) < time - 365 * 2 * 86400 \/ Seconds(dt) > time + 365 * 2 * 86400
       THEN None
       ELSE dt

\* datetime.now(), its date part
Today(time) == AddDays(ClockStart, time \div 86400)

(***************************************************************************)
(* Application start-up and the clock                                      *)
(***************************************************************************)
\* lifespan / PlaywrightManager.start: lines 23-29, 50-53
Start ==
    /\ ~browser
    /\ browser' = TRUE
    /\ UNCHANGED <<contexts, pages, cache_dir, files, now, site, pc, frame, ret, week, budget>>

\* somebody is left to read the clock or the site: a request to come, or a
\* task that waits for its page
Observed == budget.calls > 0 \/ budget.weeks > 0 \/ \E t \in Tasks : pc[t] = "scrape"

\* time passes: the TTL, or one second less
Tick ==
    /\ budget.ticks > 0
    /\ Observed
    /\ \E delta \in {CACHE_TTL - 1, CACHE_TTL} : now' = now + delta
    /\ budget' = [budget EXCEPT !.ticks = @ - 1]
    /\ UNCHANGED <<browser, contexts, pages, cache_dir, files, site, pc, frame, ret, week>>

\* the upstream timetable of one day changes
SiteUpdate ==
    /\ budget.edits > 0
    /\ Observed
    /\ budget' = [budget EXCEPT !.edits = @ - 1]
    /\ \E url \in DOMAIN site, page \in SmallPages :
         /\ page # site[url]
         /\ site' = [site EXCEPT ![url] = page]
    /\ UNCHANGED <<browser, contexts, pages, cache_dir, files, now, pc, frame, ret, week>>

(***************************************************************************)
(* get_day_schedule: lines 99-209                                          *)
(***************************************************************************)
\* `if cached_schedule:` in place of `is not None`: a cached [] is a miss
Call_Truthy(fs, time, group, date, read_ok) ==
    LET cached_schedule == load_from_cache(fs, time, group, date, read_ok)
        miss == cached_schedule = None \/ cached_schedule = [value |-> <<>>]
    IN [pc |-> IF miss THEN "scrape" ELSE "done",
        ret |-> IF miss THEN None
                ELSE IF cached_schedule = Raised THEN Raised
                ELSE Returned(cached_schedule.value),
        frame |-> [NoFrame EXCEPT !.group = group, !.date = date,
                                  !.hit = ~miss /\ cached_schedule # Raised]]

\* lines 100-102, which run without suspension in the caller's step: a hit
\* returns, a miss leaves the task waiting for the browser.  fs and time are
\* the cache files and the clock; read_ok is whether the file can be read.
Call(fs, time, group, date, read_ok) ==
    LET cached_schedule == load_from_cache(fs, time, group, date, read_ok)
    IN [pc |-> IF cached_schedule = None THEN "scrape" ELSE "done",
        ret |-> IF cached_schedule = None THEN None
                ELSE IF cached_schedule = Raised THEN Raised
                ELSE Returned(cached_schedule.value),
        frame |-> [NoFrame EXCEPT !.group = group, !.date = date,
                                  !.hit = cached_schedule # None /\ cached_schedule # Raised]]

\* the read of the cache file can fail only when there is a fresh file
ReadChoices(group, date) ==
    IF budget.faults > 0 /\ is_cache_valid(files, now, cache_filename(group, date))
    THEN BOOLEAN ELSE {TRUE}

\* the number of failures in the browser's behaviour on the blocks
RECURSIVE FaultCount(_)
FaultCount(out) == IF out = <<>> THEN 0
                   ELSE (IF Head(out) = "ok" THEN 0 ELSE 1) + FaultCount(Tail(out))

\* the behaviours of the browser on len blocks with at most n failures;
\* nothing fails after the failure that leaves the loop
RECURSIVE OutcomeVectors(_, _)
OutcomeVectors(len, n) ==
    IF len = 0 THEN {<<>>}
    ELSE {<<"ok">> \o v : v \in OutcomeVectors(len - 1, n)}
         \cup (IF n = 0 THEN {}
               ELSE {<<o>> \o v : o \in {x \in Outcomes : x # "ok" /\ ~Raises(x)},
                                  v \in OutcomeVectors(len - 1, n - 1)}
                    \cup {<<o>> \o [k \in 1..(len - 1) |-> "ok"] : o \in {x \in Outcomes : Raises(x)}})

\* line 107: PlaywrightManager.get_new_page (lines 38-46) raises, outside the
\* try statement; a context made before new_page raises stays open
GetNewPageFails(t) ==
    /\ pc[t] = "scrape"
    /\ budget.faults > 0
    /\ budget' = [budget EXCEPT !.faults = @ - 1]
    /\ \E o \in {"new_context_error", "new_page_error"} :
         contexts' = IF o = "new_page_error" THEN contexts \cup {t} ELSE contexts
    /\ pc' = [pc EXCEPT ![t] = "done"]
    /\ ret' = [ret EXCEPT ![t] = Raised]
    /\ UNCHANGED <<browser, pages, cache_dir, files, now, site, frame, week>>

\* lines 107-115 and 204-206: the page is made, then navigation, a wait or
\* the query raises (a timeout, ...) and the except clause returns []
ScrapeFails(t) ==
    /\ pc[t] = "scrape"
    /\ budget.faults > 0
    /\ budget' = [budget EXCEPT !.faults = @ - 1]
    /\ contexts' = contexts \cup {t}
    /\ pages' = pages \cup {t}
    /\ pc' = [pc EXCEPT ![t] = "finally"]
    /\ ret' = [ret EXCEPT ![t] = Returned(<<>>)]
    /\ frame' = [frame EXCEPT ![t].logged = TRUE]
    /\ UNCHANGED <<browser, cache_dir, files, now, site, week>>

\* lines 107-206 when the page renders: the page is made, then the blocks,
\* the loop, the sort and the cache write.  The awaits in between touch only
\* the task's own page, so the step is taken as one.
Scrape(t) ==
    /\ pc[t] = "scrape"
    /\ contexts' = contexts \cup {t}
    /\ pages' = pages \cup {t}
    /\ pc' = [pc EXCEPT ![t] = "finally"]
    /\ \E schedule_blocks \in {site[<<frame[t].group, frame[t].date>>]} :
       \E out \in OutcomeVectors(Len(schedule_blocks), budget.faults) :
       \E loop \in {BlocksLoop(schedule_blocks, out, 1, NOT_SPECIFIED, <<>>, <<>>)} :
         IF schedule_blocks = <<>> \/ loop.raised
         THEN /\ ret' = [ret EXCEPT ![t] = Returned(<<>>)]
              /\ frame' = [frame EXCEPT ![t].blocks = schedule_blocks, ![t].out = out,
                                        ![t].schedule = loop.schedule,
                                        ![t].log = loop.log, ![t].logged = loop.raised]
              /\ budget' = [budget EXCEPT !.faults = @ - FaultCount(out)]
              /\ UNCHANGED <<files, cache_dir>>
         ELSE \E schedule \in {sort(loop.schedule)} :
              \E text \in {json_dump(schedule)} :
              \E io \in IoChoices(text) :
              \E f \in {FaultCount(out) + (IF io = IoOk(text) THEN 0 ELSE 1)} :
              \E saved \in {save_to_cache(files, cache_dir, now, frame[t].group,
                                          frame[t].date, schedule, io)} :
                /\ f <= budget.faults
                /\ ~io.mkdir_ok => ~cache_dir
                /\ budget' = [budget EXCEPT !.faults = @ - f]
                /\ files' = saved.files
                /\ cache_dir' = saved.cache_dir
                /\ frame' = [frame EXCEPT ![t].blocks = schedule_blocks,
                                          ![t].out = out,
                                          ![t].schedule = loop.schedule,
                                          ![t].log = loop.log,
                                          ![t].io = io,
                                          ![t].logged = saved.raised]
                /\ ret' = [ret EXCEPT ![t] = IF saved.raised THEN Returned(<<>>)
                                             ELSE Returned(schedule)]
    /\ UNCHANGED <<browser, now, site, week>>

\* lines 207-209: page.close() and then page.context.close(); an exception of
\* either replaces the return value and skips what follows it.  The locals of
\* the call end with it.
Finally(t) ==
    /\ pc[t] = "finally"
    /\ \E o \in {"ok", "page_close_error", "context_close_error"} :
         /\ o # "ok" => budget.faults > 0
         /\ budget' = [budget EXCEPT !.faults = IF o = "ok" THEN @ ELSE @ - 1]
         /\ pages' = IF o = "page_close_error" THEN pages ELSE pages \ {t}
         /\ contexts' = IF o = "ok" THEN contexts \ {t} ELSE contexts
         /\ ret' = IF o = "ok" THEN ret ELSE [ret EXCEPT ![t] = Raised]
    /\ pc' = [pc EXCEPT ![t] = "done"]
    /\ frame' = [frame EXCEPT ![t] = [NoFrame EXCEPT !.group = frame[t].group,
                                                      !.date = frame[t].date,
                                                      !.hit = frame[t].hit]]
    /\ UNCHANGED <<browser, cache_dir, files, now, site, week>>

DayStep(t) == GetNewPageFails(t) \/ ScrapeFails(t) \/ Scrape(t) \/ Finally(t)

(***************************************************************************)
(* GET /schedule: lines 232-250                                            *)
(***************************************************************************)
BadRequest == [status |-> 400]

\* lines 237-244: a request that fails validation is answered 400 at once;
\* otherwise get_day_schedule is called and runs up to its first await
GetSchedule(t, group, date) ==
    /\ browser
    /\ budget.calls > 0
    /\ pc[t] = "idle"
    /\ \A u \in 1..(t - 1) : pc[u] # "idle"
    /\ Cardinality({u \in Tasks : pc[u] # "idle"}) < budget.parallel
    /\ IF /\ validate_group(group)
          /\ date = None \/ validate_date_range(date.str, now) # None
       THEN \E d \in {IF date = None THEN strftime(Today(now)) ELSE date.str} :
            \E read_ok \in ReadChoices(group, d) :
            \E call \in {Call(files, now, group, d, read_ok)} :
              /\ <<group, d>> \in DOMAIN site
              /\ pc' = [pc EXCEPT ![t] = call.pc]
              /\ ret' = [ret EXCEPT ![t] = call.ret]
              /\ frame' = [frame EXCEPT ![t] = call.frame]
              /\ budget' = [budget EXCEPT !.calls = @ - 1,
                                          !.faults = IF read_ok THEN @ ELSE @ - 1]
       ELSE /\ pc' = [pc EXCEPT ![t] = "rejected"]
            /\ budget' = [budget EXCEPT !.calls = @ - 1]
            /\ UNCHANGED <<frame, ret>>
    /\ UNCHANGED <<browser, contexts, pages, cache_dir, files, now, site, week>>

\* lines 244-250: the response of the request that task t serves, None
\* while there is none
Response(t) ==
    IF pc[t] = "rejected" THEN BadRequest
    ELSE IF pc[t] # "done" THEN None
    ELSE IF ret[t] = Raised THEN [status |-> 500]
    ELSE [status |-> 200, group |-> frame[t].group, date |-> frame[t].date,
          schedule |-> ret[t].value]

\* lines 244-250: the response is sent (an exception as a 500 by the
\* framework) and the request with its task is over.  A context or page the
\* task left open stays in the browser, under the name Orphan.
Respond(t) ==
    /\ pc[t] \in {"done", "rejected"}
    /\ week.pc = "idle"
    /\ pc' = [pc EXCEPT ![t] = "idle"]
    /\ ret' = [ret EXCEPT ![t] = None]
    /\ frame' = [frame EXCEPT ![t] = NoFrame]
    /\ contexts' = IF t \in contexts THEN (contexts \ {t}) \cup {Orphan} ELSE contexts
    /\ pages' = IF t \in pages THEN (pages \ {t}) \cup {Orphan} ELSE pages
    /\ UNCHANGED <<browser, cache_dir, files, now, site, week, budget>>

(***************************************************************************)
(* Specification of single-day requests                                    *)
(***************************************************************************)
GroupInputs == {GroupA, GroupBad}

DateInputs == {None, [str |-> Date1], [str |-> DateBad], [str |-> DateFar]}

Next ==
    \/ Start
    \/ Tick
    \/ SiteUpdate
    \/ \E t \in Tasks, group \in GroupInputs, date \in DateInputs : GetSchedule(t, group, date)
    \/ \E t \in Tasks : DayStep(t)
    \/ \E t \in Tasks : Respond(t)

Spec == Init /\ [][Next]_vars

(***************************************************************************)
(* Specification of one scrape of any page of at most MaxBlocks blocks     *)
(***************************************************************************)
PageBlocks == {BlockA, BlockB, BlockB2, BlockN, BlockW}

RECURSIVE SeqsUpTo(_, _)
SeqsUpTo(S, n) == IF n = 0 THEN {<<>>}
                  ELSE SeqsUpTo(S, n - 1)
                       \cup {Append(q, x) : q \in {p \in SeqsUpTo(S, n - 1) : Len(p) = n - 1}, x \in S}

InitPage == InitWith({<<GroupA, Date1>>}, SeqsUpTo(PageBlocks, MaxBlocks), 1, 1, 0, 0, 0)

NextPage ==
    \/ Start
    \/ \E t \in Tasks, group \in GroupInputs, date \in DateInputs : GetSchedule(t, group, date)
    \/ \E t \in Tasks : DayStep(t)
    \/ \E t \in Tasks : Respond(t)

SpecPage == InitPage /\ [][NextPage]_vars

(***************************************************************************)
(* GET /schedule/week: lines 253-279                                       *)
(***************************************************************************)
\* line 262
Monday_IsoWeekday(date_dt) == AddDays(date_dt, 0 - (weekday(date_dt) + 1))

\* line 262: monday = date_dt - timedelta(days=date_dt.weekday())
Monday(date_dt) == AddDays(date_dt, 0 - weekday(date_dt))

\* line 263
week_dates(monday) == [i \in 1..WEEK_DAYS |-> strftime(AddDays(monday, i - 1))]

\* lines 257-266: a request that fails validation is answered 400; otherwise
\* the seven coroutines are made and gather schedules them as tasks, which
\* the event loop starts in order before anything else runs: each runs its
\* cache look-up and either returns or stops at its first await
GetWeeklySchedule(group, date) ==
    /\ browser
    /\ budget.weeks > 0
    /\ week.pc = "idle"
    /\ \A t \in Tasks : pc[t] = "idle"
    /\ \E dt \in {IF date = None THEN Today(now) ELSE validate_date_range(date.str, now)} :
         IF validate_group(group) /\ dt # None
         THEN \E date_dt \in {dt} :
              \E monday \in {Monday(date_dt)} :
              \E dates \in {week_dates(monday)} :
              \E bad \in SUBSET {t \in Tasks :
                                   is_cache_valid(files, now, cache_filename(group, dates[t]))} :
                /\ \A t \in Tasks : <<group, dates[t]>> \in DOMAIN site
                /\ Cardinality(bad) <= budget.faults
                /\ \E call \in {[t \in Tasks |->
                                   Call(files, now, group, dates[t], t \notin bad)]} :
                     /\ pc' = [t \in Tasks |-> call[t].pc]
                     /\ ret' = [t \in Tasks |-> call[t].ret]
                     /\ frame' = [t \in Tasks |-> call[t].frame]
                /\ budget' = [budget EXCEPT !.weeks = @ - 1,
                                            !.faults = @ - Cardinality(bad)]
                /\ week' = [pc |-> "gather", group |-> group, date_dt |-> date_dt,
                            monday |-> monday, week_dates |-> dates, response |-> None]
         ELSE /\ week' = [week EXCEPT !.pc = "done", !.response = BadRequest]
              /\ budget' = [budget EXCEPT !.weeks = @ - 1]
              /\ UNCHANGED <<pc, ret, frame>>
    /\ UNCHANGED <<browser, contexts, pages, cache_dir, files, now, site>>

\* lines 266-279: every task has returned; gather gives the results in the
\* order of the tasks and the handler zips them with week_dates
GatherReturns ==
    /\ week.pc = "gather"
    /\ \A t \in Tasks : pc[t] = "done" /\ ret[t] # Raised
    /\ LET results == [t \in Tasks |-> ret[t].value]
           weekly_schedule == [i \in 1..WEEK_DAYS |->
                                 [date |-> week.week_dates[i], schedule |-> results[i]]]
       IN week' = [week EXCEPT !.pc = "done",
                               !.response = [status |-> 200, group |-> week.group,
                                             week_start |-> strftime(week.monday),
                                             schedules |-> weekly_schedule]]
    /\ UNCHANGED <<browser, contexts, pages, cache_dir, files, now, site, pc, frame, ret, budget>>

\* line 266: a task has raised; gather passes the exception on to the handler
\* at once and the request is answered 500, while the other tasks run on
GatherRaises ==
    /\ week.pc = "gather"
    /\ \E t \in Tasks : pc[t] = "done" /\ ret[t] = Raised
    /\ week' = [week EXCEPT !.pc = "done", !.response = [status |-> 500]]
    /\ UNCHANGED <<browser, contexts, pages, cache_dir, files, now, site, pc, frame, ret, budget>>

(***************************************************************************)
(* Specification of one week request.  The cache directory outlives the    *)
(* process: the application starts on the files of earlier runs.  A cold   *)
(* week (seven scrapes in flight) is explored without failures and with a  *)
(* still clock; a week whose first days are in the cache, with at most     *)
(* MaxMisses days to scrape, is explored with failures, and with a clock   *)
(* step (timed).                                                           *)
(***************************************************************************)
\* the site serves the days of the week and the day before and after it;
\* the page of a day goes by its day of the week
WeekSite(monday) ==
    [u \in {<<GroupA, strftime(AddDays(monday, i))>> : i \in -1..WEEK_DAYS} |->
       WeekPages[weekday(strptime(u[2])) + 1]]

\* what a scrape of the page without failures stores
Stored(page) ==
    json_dump(sort(BlocksLoop(page, [i \in 1..Len(page) |-> "ok"], 1, NOT_SPECIFIED,
                              <<>>, <<>>).schedule))

\* the cache files of an earlier run for the days in cached
WarmFiles(monday, cached) ==
    [f \in {cache_filename(GroupA, week_dates(monday)[i]) : i \in cached} |->
       [data |-> Stored(WeekPages[CHOOSE i \in cached :
                                    cache_filename(GroupA, week_dates(monday)[i]) = f]),
        mtime |-> 0]]

InitWeek ==
    /\ browser = FALSE
    /\ contexts = {}
    /\ pages = {}
    /\ now = 0
    /\ pc = [t \in Tasks |-> "idle"]
    /\ frame = [t \in Tasks |-> NoFrame]
    /\ ret = [t \in Tasks |-> None]
    /\ week = NoWeek
    /\ \E monday \in WeekStarts, n \in {0} \cup ((WEEK_DAYS - MaxMisses)..WEEK_DAYS),
          timed \in BOOLEAN :
       LET cached == 1..n
       IN
         /\ timed => n > 0
         /\ site = WeekSite(monday)
         /\ files = WarmFiles(monday, cached)
         /\ cache_dir = (cached # {})
         /\ budget = [calls |-> 0, parallel |-> 0, edits |-> 0, weeks |-> 1,
                      faults |-> IF n = 0 \/ timed THEN 0 ELSE MaxFaults,
                      ticks |-> IF timed THEN 1 ELSE 0]

WeekDateInputs == {None, [str |-> DateMon], [str |-> DateSun], [str |-> DateNewYear],
                   [str |-> DateBad]}

NextWeek ==
    \/ Start
    \/ Tick
    \/ \E group \in GroupInputs, date \in WeekDateInputs : GetWeeklySchedule(group, date)
    \/ \E t \in Tasks : DayStep(t)
    \/ GatherReturns
    \/ GatherRaises

SpecWeek == InitWeek /\ [][NextWeek]_vars

(***************************************************************************)
(* Specification of the cache keys: requests without failures for the      *)
(* groups that validate_group lets through, each group with a page of its  *)
(* own                                                                     *)
(***************************************************************************)
\* a group number written with a digit that is not ASCII
GroupU3 == <<"~B", "~A", "~S", "~O", "-", "0", "~3", "-", "2", "4">>

GroupU4 == <<"~B", "~A", "~S", "~O", "-", "0", "~4", "-", "2", "4">>

\* a group with a newline after it
GroupNl == <<"~B", "~A", "~S", "~O", "-", "0", "3", "-", "2", "4", "\n">>

GroupUs == <<"~B", "~A", "~S", "~O", "-", "0", "3", "-", "2", "4", "_">>

KeyGroupInputs == {GroupA, GroupU3, GroupU4, GroupNl, GroupUs, GroupBad}

\* the page of each group that passes validate_group
KeySite ==
    [u \in {<<g, Date1>> : g \in {k \in KeyGroupInputs : validate_group(k)}} |->
       CASE u[1] = GroupA -> <<BlockW, BlockA>>
         [] u[1] = GroupU3 -> <<BlockB>>
         [] u[1] = GroupU4 -> <<BlockN>>
         [] OTHER -> <<BlockB2>>]

InitKeys ==
    /\ browser = FALSE
    /\ contexts = {}
    /\ pages = {}
    /\ cache_dir = FALSE
    /\ files = [f \in {} |-> None]
    /\ now = 0
    /\ site = KeySite
    /\ pc = [t \in Tasks |-> "idle"]
    /\ frame = [t \in Tasks |-> NoFrame]
    /\ ret = [t \in Tasks |-> None]
    /\ week = NoWeek
    /\ budget = [calls |-> MaxCalls, parallel |-> 1, faults |-> 0, ticks |-> MaxTicks,
                 edits |-> 0, weeks |-> 0]

NextKeys ==
    \/ Start
    \/ Tick
    \/ \E t \in Tasks, group \in KeyGroupInputs, date \in {None, [str |-> Date1]} :
         GetSchedule(t, group, date)
    \/ \E t \in Tasks : Scrape(t)
    \/ \E t \in Tasks : Finally(t)
    \/ \E t \in Tasks : Respond(t)

SpecKeys == InitKeys /\ [][NextKeys]_vars

(***************************************************************************)
(* Specification of the text of the blocks: one scrape without failures of *)
(* any page of at most MaxBlocks blocks whose titles take every branch of  *)
(* lines 122-154                                                           *)
(***************************************************************************)
TitleS == <<"~S", "~e", "~s", "~s", "~i", "~ya", "\n">>

TitleH == <<"X", "-", "Y", " ", "A">>

TitleH2 == <<"X", " ", "Y", "-", "A">>

TitleC == <<"~N", "~e", "~d", "~e", "~l", "~ya", ":", " ", "1">>

TitleP == <<"L", "K", " ", "|", " ", "B">>

BlockS == Block(Elem(TitleS), None, DialogBare)

\* a block without a title element
BlockT == Block(None, Elem(<<"1">>), DialogBare)

BlockH == Block(Elem(TitleH), None, DialogBare)

BlockH2 == Block(Elem(TitleH2), None, DialogBare)

BlockC == Block(Elem(TitleC), None, DialogBare)

BlockP == Block(Elem(TitleP), None, DialogBare)

TextBlocks == {BlockA, BlockN, BlockW, BlockS, BlockT, BlockH, BlockH2, BlockC, BlockP}

InitText ==
    /\ browser = FALSE
    /\ contexts = {}
    /\ pages = {}
    /\ cache_dir = FALSE
    /\ files = [f \in {} |-> None]
    /\ now = 0
    /\ site \in [{<<GroupA, Date1>>} -> SeqsUpTo(TextBlocks, MaxBlocks)]
    /\ pc = [t \in Tasks |-> "idle"]
    /\ frame = [t \in Tasks |-> NoFrame]
    /\ ret = [t \in Tasks |-> None]
    /\ week = NoWeek
    /\ budget = [calls |-> 1, parallel |-> 1, faults |-> 0, ticks |-> 0, edits |-> 0,
                 weeks |-> 0]

NextText ==
    \/ Start
    \/ \E t \in Tasks, group \in GroupInputs, date \in DateInputs : GetSchedule(t, group, date)
    \/ \E t \in Tasks : Scrape(t)
    \/ \E t \in Tasks : Finally(t)
    \/ \E t \in Tasks : Respond(t)

SpecText == InitText /\ [][NextText]_vars

(***************************************************************************)
(* Specification of concurrent requests for one key: two get_day_schedule  *)
(* calls at a time, without failures, while the upstream timetable changes *)
(***************************************************************************)
InitRace ==
    /\ browser = FALSE
    /\ contexts = {}
    /\ pages = {}
    /\ cache_dir = FALSE
    /\ files = [f \in {} |-> None]
    /\ now = 0
    /\ site \in [{<<GroupA, Date1>>} -> SmallPages \ {<<>>}]
    /\ pc = [t \in Tasks |-> "idle"]
    /\ frame = [t \in Tasks |-> NoFrame]
    /\ ret = [t \in Tasks |-> None]
    /\ week = NoWeek
    /\ budget = [calls |-> MaxCalls, parallel |-> 2, faults |-> 0, ticks |-> 0,
                 edits |-> MaxEdits, weeks |-> 0]

NextRace ==
    \/ Start
    \/ SiteUpdate
    \/ \E t \in Tasks, group \in GroupInputs, date \in DateInputs : GetSchedule(t, group, date)
    \/ \E t \in Tasks : Scrape(t)
    \/ \E t \in Tasks : Finally(t)
    \/ \E t \in Tasks : Respond(t)

SpecRace == InitRace /\ [][NextRace]_vars

(***************************************************************************)
(* Properties                                                              *)
(***************************************************************************)
IsValue(r) == r # None /\ r # Raised

\* C1: get_day_schedule never raises to its caller: whatever fails during
\* one day's pipeline, the task that is done has returned a list.
C1_NeverRaises == \A t \in Tasks : pc[t] = "done" => ret[t] # Raised

\* C2: every context and page made for a scrape is closed by the time
\* get_day_schedule finishes, on every exit path.
C2_AllClosed == \A t \in Tasks : pc[t] = "done" => (t \notin contexts /\ t \notin pages)

\* the try body met zero blocks and returned [] at line 117
ZeroNodes(t) == pc[t] = "finally" /\ frame[t].out = <<>> /\ ~frame[t].logged

\* C3: when the page yields zero lesson nodes, the empty schedule is in the
\* cache when get_day_schedule returns it, so that the next look-up within
\* the TTL is a hit.
C3_ZeroNodesCached ==
    \A t \in Tasks : ZeroNodes(t) =>
        load_from_cache(files, now, frame[t].group, frame[t].date, TRUE) = [value |-> <<>>]

\* C4: when load_from_cache reports a fresh entry, the call returns exactly
\* the stored value at once and changes nothing else: no context, no page,
\* no cache file and no modification time.
C4_HitReturnsStored ==
    [][\A t \in Tasks :
         (/\ pc[t] = "idle" /\ pc'[t] \in {"scrape", "done"}
          /\ budget'.faults = budget.faults
          /\ IsValue(load_from_cache(files, now, frame'[t].group, frame'[t].date, TRUE)))
         => /\ pc'[t] = "done"
            /\ ret'[t] = Returned(load_from_cache(files, now, frame'[t].group,
                                                  frame'[t].date, TRUE).value)
            /\ UNCHANGED <<browser, contexts, pages, cache_dir, files, now>>]_vars

C4_Witness == \E t \in Tasks : pc[t] = "done" /\ frame[t].hit /\ ret[t] # Returned(<<>>)

\* C5: load_from_cache returns the stored schedule only while the age of
\* the file is below the TTL; at any age from the TTL on the look-up is a
\* miss that leaves the file alone, and the next scrape of the key that
\* succeeds overwrites the stale entry.
C5_StaleOverwritten ==
    [][\A t \in Tasks :
         LET g == frame'[t].group
             d == frame'[t].date
             name == cache_filename(g, d)
             stale == name \in DOMAIN files /\ now - files[name].mtime >= CACHE_TTL
         IN /\ (pc[t] = "idle" /\ pc'[t] \in {"scrape", "done"} /\ stale)
               => (pc'[t] = "scrape" /\ files' = files)
            /\ (pc[t] = "idle" /\ pc'[t] = "done" /\ IsValue(ret'[t]))
               => (name \in DOMAIN files /\ now - files[name].mtime < CACHE_TTL)
            /\ (/\ pc[t] = "scrape" /\ pc'[t] = "finally" /\ stale
                /\ ~frame'[t].logged /\ budget'.faults = budget.faults)
               => files'[name] = [data |-> json_dump(ret'[t].value), mtime |-> now]]_vars

\* C6: save_to_cache(group, date, S) followed at once by load_from_cache
\* gives back S, for every schedule S a call returns (the empty list
\* included), and get_day_schedule takes that value as a hit.
C6_RoundTrip ==
    \A t \in Tasks : IsValue(ret[t]) =>
        LET S == ret[t].value
            g == frame[t].group
            d == frame[t].date
            saved == save_to_cache(files, cache_dir, now, g, d, S, IoOk(json_dump(S)))
        IN /\ load_from_cache(saved.files, now, g, d, TRUE) = [value |-> S]
           /\ Call(saved.files, now, g, d, TRUE).pc = "done"
           /\ Call(saved.files, now, g, d, TRUE).ret = Returned(S)

C6_Witness ==
    \E t \in Tasks : /\ pc[t] = "done" /\ frame[t].hit /\ ret[t] = Returned(<<>>)
                     /\ cache_filename(frame[t].group, frame[t].date) \in DOMAIN files

\* the start minute of a time "H:MM - H:MM", read off its digits; Inf for
\* a time of another form
StartMinute(time) ==
    LET l == MatchClock(time, 1)
    IN IF l > 0 /\ StartsAt(time, <<" ", "-", " ">>, l + 1)
       THEN [fin |-> TRUE, m |-> 60 * IntBodyVal(Slice(time, 1, l - 3), 0)
                                 + IntBodyVal(Slice(time, l - 1, l), 0)]
       ELSE Inf

\* the try body reached the sort of line 200
Sorted(t) == pc[t] = "finally" /\ frame[t].out # <<>> /\ ~frame[t].logged

\* C7: a schedule returned after a scrape is in ascending order of start
\* minute, the records whose time has no start minute come last, and the
\* records of equal key keep their DOM order.
C7_SortedStable ==
    \A t \in Tasks : Sorted(t) =>
        LET r == ret[t].value
            dom == frame[t].schedule
        IN /\ Len(r) = Len(dom)
           /\ \A i, j \in 1..Len(r) :
                i < j => ~KeyLess(StartMinute(r[j].time), StartMinute(r[i].time))
           /\ \A i, j \in 1..Len(r) :
                (StartMinute(r[i].time) = Inf /\ StartMinute(r[j].time) # Inf) => j < i
           /\ \A k \in 1..Len(dom) :
                SelectSeq(r, LAMBDA x : StartMinute(x.time) = StartMinute(dom[k].time))
                = SelectSeq(dom, LAMBDA x : StartMinute(x.time) = StartMinute(dom[k].time))

C7_Witness ==
    \E t \in Tasks :
        /\ Sorted(t) /\ ret[t].value # frame[t].schedule
        /\ \E i, j \in 1..Len(ret[t].value) :
             /\ i < j /\ ret[t].value[i] # ret[t].value[j]
             /\ StartMinute(ret[t].value[i].time) = StartMinute(ret[t].value[j].time)
        /\ \E i \in 1..Len(ret[t].value) : StartMinute(ret[t].value[i].time) = Inf

\* block i of the page is a lesson, not a period marker
IsLesson(block) == ~IsWeekMarker(time_subject_text(block)) /\ ~IsSessionMarker(time_subject_text(block))

\* the place of block i among the lessons of the page
Rank(blocks, i) == Cardinality({j \in 1..i : IsLesson(blocks[j])})

Lessons(blocks) == {i \in 1..Len(blocks) : IsLesson(blocks[i])}

\* os.makedirs of line 81 did not fail in the call of task t
MakedirsOk(t) == frame[t].io = None \/ frame[t].io.mkdir_ok

HasSentinels(record) == record.teacher = NO_DATA /\ record.groups = <<NO_GROUPS>>

\* C8: when the wait for the popover of block i times out, block i is
\* recorded with the sentinel teacher and groups, and every lesson of the
\* page, the later ones included, is recorded and returned.
C8_TimeoutKeepsGoing ==
    \A t \in Tasks :
        (/\ pc[t] = "finally" /\ frame[t].out # <<>> /\ MakedirsOk(t)
         /\ \A i \in 1..Len(frame[t].out) : frame[t].out[i] \in {"ok", "wait_timeout"})
        => /\ IsValue(ret[t])
           /\ Len(ret[t].value) = Cardinality(Lessons(frame[t].blocks))
           /\ Len(frame[t].schedule) = Cardinality(Lessons(frame[t].blocks))
           /\ \A k \in 1..Len(frame[t].schedule) :
                \E n \in 1..Len(ret[t].value) : ret[t].value[n] = frame[t].schedule[k]
           /\ \A i \in Lessons(frame[t].blocks) :
                frame[t].out[i] = "wait_timeout"
                => HasSentinels(frame[t].schedule[Rank(frame[t].blocks, i)])

C8_Witness ==
    \E t \in Tasks :
        /\ pc[t] = "finally" /\ IsValue(ret[t]) /\ Len(ret[t].value) >= 2
        /\ \E i, j \in Lessons(frame[t].blocks) :
             /\ i < j /\ frame[t].out[i] = "wait_timeout" /\ frame[t].out[j] = "ok"
             /\ HasSentinels(frame[t].schedule[Rank(frame[t].blocks, i)])
             /\ ~HasSentinels(frame[t].schedule[Rank(frame[t].blocks, j)])

\* C9: any error of the detail interaction on one block (hover, dialog
\* wait, dialog text, dismiss click) is swallowed for that block: its record
\* carries the sentinels and the schedule holds a record of every lesson.
C9_DetailErrorsSwallowed ==
    \A t \in Tasks :
        (/\ pc[t] = "finally" /\ frame[t].out # <<>>
         /\ MakedirsOk(t)
         /\ \A i \in 1..Len(frame[t].out) : frame[t].out[i] # "extract_error"
         /\ \E i \in Lessons(frame[t].blocks) : frame[t].out[i] # "ok")
        => /\ IsValue(ret[t])
           /\ Len(ret[t].value) = Cardinality(Lessons(frame[t].blocks))
           /\ \A i \in Lessons(frame[t].blocks) :
                frame[t].out[i] # "ok"
                => HasSentinels(frame[t].schedule[Rank(frame[t].blocks, i)])

\* C10: a week response has week_start on the Monday of the week that holds
\* the requested date and seven entries, Monday to Sunday in order, each
\* with the schedule that get_day_schedule returned for its own date,
\* whatever the order in which the seven calls completed.
C10_WeekAligned ==
    (week.pc = "done" /\ week.response.status = 200) =>
        LET r == week.response
            m == strptime(r.week_start)
        IN /\ m # None
           /\ ToOrdinal(m) % 7 = 1
           /\ ToOrdinal(week.date_dt) - ToOrdinal(m) \in 0..6
           /\ Len(r.schedules) = 7
           /\ \A k \in 1..7 :
                /\ r.schedules[k].date = strftime(AddDays(m, k - 1))
                /\ \E t \in Tasks :
                     /\ frame[t].group = r.group
                     /\ frame[t].date = r.schedules[k].date
                     /\ ret[t] = Returned(r.schedules[k].schedule)
                /\ \A t \in Tasks :
                     frame[t].date = r.schedules[k].date
                     => ret[t] = Returned(r.schedules[k].schedule)

\* a later day was scraped and stored before an earlier one
C10_Witness ==
    /\ week.pc = "done" /\ week.response.status = 200
    /\ \E j, k \in 1..7 :
         LET fj == cache_filename(week.group, week.week_dates[j])
             fk == cache_filename(week.group, week.week_dates[k])
         IN /\ j < k /\ fj \in DOMAIN files /\ fk \in DOMAIN files
            /\ files[fk].mtime < files[fj].mtime
            /\ week.response.schedules[j].schedule # week.response.schedules[k].schedule
            /\ week.response.schedules[j].schedule # <<>>
            /\ week.response.schedules[k].schedule # <<>>

\* C11: in a week request that passed validation, a failure in one day's
\* get_day_schedule does not abort the other days: the request is answered
\* 200 with seven entries, each with what the call for its own day gave, and
\* the day that failed with the empty list.
C11_SiblingsSurvive ==
    (week.pc = "done" /\ week.monday # None) =>
        /\ week.response.status = 200
        /\ Len(week.response.schedules) = WEEK_DAYS
        /\ \A k \in Tasks :
             /\ week.response.schedules[k].date = week.week_dates[k]
             /\ week.response.schedules[k].schedule
                = (IF ret[k] = Raised THEN <<>> ELSE ret[k].value)

\* line 201 was reached in the call of task t and the store failed
SaveFailed(t) ==
    /\ pc[t] = "finally"
    /\ frame[t].io # None
    /\ frame[t].io # IoOk(json_dump(sort(frame[t].schedule)))

\* C12: when storing the assembled schedule fails in any way (creating the
\* cache directory, opening the file, writing it), the failure is swallowed
\* and get_day_schedule returns the assembled, sorted schedule.
C12_SaveBestEffort ==
    \A t \in Tasks : SaveFailed(t) => ret[t] = Returned(sort(frame[t].schedule))

\* C13: when the read of a fresh cache file fails, or its content cannot be
\* decoded or is no JSON document, load_from_cache reports a miss and never
\* an error: the call goes on to scrape the page as on a cold cache.
C13_BadEntryIsMiss ==
    [][\A t \in Tasks :
         LET name == cache_filename(frame'[t].group, frame'[t].date)
         IN (/\ pc[t] = "idle" /\ pc'[t] \in {"scrape", "done"}
             /\ is_cache_valid(files, now, name)
             /\ \/ budget'.faults < budget.faults
                \/ ~IsUtf8(files[name].data)
                \/ ~IsJson(files[name].data))
            => (pc'[t] = "scrape" /\ ret'[t] = None)]_vars

\* the characters the key derivation is said to keep: letters, digits, "-"
KeptChars == LatinLetters \cup CyrillicRange \cup CyrillicYo \cup Digits \cup {"-"}

\* g and h are of one length and differ, and only at places where both hold
\* a character that is not kept
DifferOutside(g, h) ==
    /\ Len(g) = Len(h) /\ g # h
    /\ \A i \in 1..Len(g) : g[i] # h[i] => (g[i] \notin KeptChars /\ h[i] \notin KeptChars)

\* C14: sanitization gives distinct cache keys, for one date, to any two
\* groups that differ only by a character outside the allowed set: the key
\* of the group a call works on is the key of no such other group.
C14_DistinctKeys ==
    \A t \in Tasks : \A h \in KeyGroupInputs :
        (frame[t].group # <<>> /\ DifferOutside(frame[t].group, h))
        => cache_filename(frame[t].group, frame[t].date) # cache_filename(h, frame[t].date)

\* the title of a block as the page gives it, trimmed; the text that stands
\* for a missing title element otherwise
NodeText(block) == IF block.title = None THEN NO_DATA ELSE Strip(block.title.inner_text)

\* neither a time range "H:MM - H:MM" followed by text at the start of the
\* text, nor a first word with "-" in it (the compact time range)
NoParsableTime(text) ==
    /\ ~time_match(text).ok
    /\ \/ Find(text, <<" ">>) = 0
       \/ ~Contains(Slice(text, 1, Find(text, <<" ">>) - 1), <<"-">>)

\* the try body went through the whole loop of a page with blocks
LoopDone(t) == pc[t] = "finally" /\ frame[t].blocks # <<>> /\ ~frame[t].logged

\* C15: the record of a node whose text is no period marker, has no
\* parsable time range and holds no "|" has the "no time" sentinel as time,
\* the whole trimmed text as subject and the "not specified" sentinel as type.
C15_PlainTextRecord ==
    \A t \in Tasks : LoopDone(t) =>
        \A i \in Lessons(frame[t].blocks) :
            LET text == NodeText(frame[t].blocks[i])
                record == frame[t].schedule[Rank(frame[t].blocks, i)]
            IN (NoParsableTime(text) /\ ~Contains(text, <<"|">>))
               => /\ record.time = NO_TIME
                  /\ record.subject = text
                  /\ record.type = NOT_SPECIFIED

\* a page with such a text that holds a "-" after its first word, and with a
\* block that has no title element
C15_Witness ==
    \E t \in Tasks :
        /\ LoopDone(t)
        /\ \E i, j \in Lessons(frame[t].blocks) :
             /\ NoParsableTime(NodeText(frame[t].blocks[i]))
             /\ Contains(NodeText(frame[t].blocks[i]), <<"-">>)
             /\ frame[t].schedule[Rank(frame[t].blocks, i)].time = NO_TIME
             /\ frame[t].blocks[j].title = None
             /\ frame[t].schedule[Rank(frame[t].blocks, j)].subject = NO_DATA

\* a period marker: the week or the session keyword, and neither ":" nor "-"
PeriodMarker(text) ==
    /\ Contains(Lower(text), KW_WEEK) \/ Contains(Lower(text), KW_SESSION)
    /\ ~Contains(text, <<":">>) /\ ~Contains(text, <<"-">>)

\* the period a marker sets: its own text for a week marker, the session
\* label for a session marker
MarkerPeriod(text) == IF Contains(Lower(text), KW_WEEK) THEN text ELSE SESSION

\* the period in force at node i: that of the nearest marker before it
PeriodAt(blocks, i) ==
    LET before == {j \in 1..(i - 1) : PeriodMarker(NodeText(blocks[j]))}
    IN IF before = {} THEN NOT_SPECIFIED
       ELSE MarkerPeriod(NodeText(blocks[CHOOSE j \in before : \A k \in before : k <= j]))

\* C16: going through the nodes in DOM order, a period marker emits no
\* record, so there are as many records as nodes that are no markers, and
\* the period of each record is the one set by the nearest marker before its
\* node, or the "not specified" sentinel when no marker precedes it.
C16_RunningPeriod ==
    \A t \in Tasks : LoopDone(t) =>
        LET blocks == frame[t].blocks
            nodes == {i \in 1..Len(blocks) : ~PeriodMarker(NodeText(blocks[i]))}
        IN /\ Len(frame[t].schedule) = Cardinality(nodes)
           /\ ret[t] # Raised /\ Len(ret[t].value) = Cardinality(nodes)
           /\ \A i \in nodes :
                frame[t].schedule[Cardinality({j \in nodes : j <= i})].period
                = PeriodAt(blocks, i)

\* a lesson before every marker and a lesson after a session marker
C16_Witness ==
    \E t \in Tasks :
        /\ LoopDone(t) /\ Len(frame[t].schedule) = 2
        /\ frame[t].schedule[1].period = NOT_SPECIFIED
        /\ frame[t].schedule[2].period = SESSION

\* C17: within one scrape the detail step of a lesson dismisses the popover
\* before the next one starts: between the hover on a node and the hover on
\* the next node there is a click, whether the popover appeared or the wait
\* for it timed out.
C17_DismissBetweenHovers ==
    \A t \in Tasks : pc[t] = "finally" =>
        \A k \in 1..(Len(frame[t].log) - 1) :
            frame[t].log[k] = "hover" => frame[t].log[k + 1] = "click"

\* the file is the whole JSON text of one schedule
Complete(file) == IsUtf8(file.data) /\ IsJson(file.data) /\ file.data = json_dump(json_load(file.data))

\* task t has stored its schedule in this step
Stores(t) == pc[t] = "scrape" /\ pc'[t] = "finally" /\ frame'[t].io # None

\* C18: when two get_day_schedule calls for one key run at the same time,
\* both may miss and both scrape and store; after every store the entry is
\* the whole schedule of the call that stored last, and at no moment does
\* the cache hold a partly written entry that a look-up could read.
C18_LastWriteWins ==
    [][/\ \A f \in DOMAIN files' : Complete(files'[f])
       /\ \A t \in Tasks :
            Stores(t) =>
                files'[cache_filename(frame'[t].group, frame'[t].date)]
                = [data |-> json_dump(ret'[t].value), mtime |-> now]]_vars

\* both calls missed and stored different schedules; the entry is that of
\* the call that started first, which stored last
C18_Witness ==
    /\ pc[1] = "finally" /\ pc[2] = "finally"
    /\ frame[1].io # None /\ frame[2].io # None
    /\ frame[1].group = frame[2].group /\ frame[1].date = frame[2].date
    /\ ret[1] # ret[2]
    /\ files[cache_filename(frame[1].group, frame[1].date)].data = json_dump(ret[1].value)

\* the step of task t ends in the except clause of lines 204-206 before the
\* sort: the navigation or the query failed, or an await of the loop raised
\* an exception that the loop does not catch
EndsInCatchAll(t) ==
    /\ pc[t] = "scrape" /\ pc'[t] = "finally"
    /\ \/ frame'[t].logged /\ frame'[t].io = None
       \/ \E i \in 1..Len(frame'[t].out) :
            \/ frame'[t].out[i] = "extract_error"
            \/ /\ IsLesson(frame'[t].blocks[i])
               /\ frame'[t].out[i] \in {"hover_error", "wait_error", "read_error", "click_error"}

\* C19: a scrape that ends in the catch-all error path returns [] and leaves
\* the cache as it was: the empty list of a failure is never stored, and a
\* key without a fresh entry before the scrape has none after it, so that
\* the next request for the key scrapes again.
C19_FailureNotStored ==
    [][\A t \in Tasks :
         EndsInCatchAll(t) =>
             /\ ret'[t] = Returned(<<>>)
             /\ files' = files /\ cache_dir' = cache_dir
             /\ load_from_cache(files, now, frame'[t].group, frame'[t].date, TRUE) = None
                => Call(files', now', frame'[t].group, frame'[t].date, TRUE).pc = "scrape"]_vars

\* a scrape has failed over a stale entry, which is still there
C19_Witness ==
    \E t \in Tasks :
        /\ pc[t] = "finally" /\ frame[t].logged /\ frame[t].io = None
        /\ ret[t] = Returned(<<>>)
        /\ cache_filename(frame[t].group, frame[t].date) \in DOMAIN files
        /\ files[cache_filename(frame[t].group, frame[t].date)].data # json_dump(<<>>)

\* what a scrape of the page without failures returns and stores
PageSchedule(page) == json_load(Stored(page))

\* C20: two distinct groups that both pass validate_group have distinct
\* cache file names for every date, so a call answered from the cache gets
\* the schedule of its own group's page and never an entry that was written
\* for another group.
C20_GroupsIsolated ==
    \A t \in Tasks : (pc[t] = "done" /\ frame[t].hit) =>
        /\ ret[t] = Returned(PageSchedule(site[<<frame[t].group, frame[t].date>>]))
        /\ \A h \in KeyGroupInputs :
             (validate_group(h) /\ h # frame[t].group)
             => cache_filename(h, frame[t].date) # cache_filename(frame[t].group, frame[t].date)

====
